---- MODULE Spec2Model ----
(***************************************************************************)
(* Symbolic differentiation and simplification ("collapse") of expression  *)
(* trees, after src/src/entity.rs and the driver src/src/main.rs.          *)
(*                                                                         *)
(* An expression is a tree of four node kinds, each a record tagged by k:  *)
(*   "C"  ConstantTerm            value, vars (non_wrt_variables)          *)
(*   "V"  VariableTerm            name, power (variable), coeffs           *)
(*   "S"  SummationFunction       terms                                    *)
(*   "M"  MultiplicationFunction  first, second                            *)
(* A panic of the Rust code (panic!, unwrap on None, index out of range)   *)
(* is the value [k |-> "PANIC", why |-> ...]; it propagates through every  *)
(* caller, as unwinding does.  f64 values are modelled by integers, which  *)
(* f64 represents exactly in the ranges used; text is a sequence of        *)
(* one-character strings.                                                  *)
(***************************************************************************)
EXTENDS Integers, Sequences, FiniteSets, TLC

VARIABLES
    sliceNe,     \* build choice: slice equality compares elements with ne (TRUE) or eq (FALSE)
    orig,        \* the tree as the caller constructed it
    obj,         \* the caller's tree, mutated in place by collapse
    res,         \* the tree returned by the last differentiate, or None
    out,         \* the text returned by the last to_str, or NoText
    pc,          \* "ready", "loop" (inside SummationFunction::collapse's while), "aborted"
    fatal,       \* which panic aborted the program, "none" while it runs
    ncollapse,   \* number of collapse calls on obj that have returned
    first1,      \* obj as it was when the first collapse returned, or None
    passes,      \* passes of the while loop run by the current (or last) collapse of a sum
    lenBefore,   \* length of the term list when the last pass of the while loop began
    passFlagged  \* whether the last pass of the while loop ended with did_change set

vars == <<sliceNe, orig, obj, res, out, pc, fatal, ncollapse, first1, passes, lenBefore,
          passFlagged>>

----------------------------------------------------------------------------
(* Bounds of the model *)

MaxTerms == 3      \* longest term list given to a SummationFunction
MaxCoeffs == 2     \* longest coefficient list given to a VariableTerm
MaxValue == 2      \* largest constant value in the generated constants
MaxPower == 5      \* largest exponent of a bare variable
MaxNeg == 1        \* bare variables have exponents from -MaxNeg
MaxCollapses == 2  \* collapse calls the caller makes on one tree
MaxRecursion == 4  \* nested differentiate calls on a product before the stack is taken to overflow

----------------------------------------------------------------------------
(* Values *)

None == [k |-> "NONE"]
NoText == <<"<none>">>
Panic(why) == [k |-> "PANIC", why |-> why]
IsPanic(e) == e.k = "PANIC"

VE(n, p) == [name |-> n, power |-> p]
ConstantTerm(v, vs) == [k |-> "C", value |-> v, vars |-> vs]
VariableTerm(n, p, cs) == [k |-> "V", name |-> n, power |-> p, coeffs |-> cs]
SummationFunction(ts) == [k |-> "S", terms |-> ts]
MultiplicationFunction(f, s) == [k |-> "M", first |-> f, second |-> s]

create_number(v) == ConstantTerm(v, <<>>)
create_variable(n, p) == VariableTerm(n, p, <<>>)

get_kind(e) == CASE e.k = "C" -> "Constant"
                 [] e.k = "V" -> "Variable"
                 [] OTHER -> "Function"

\* Variable names in String order (Ord for VariableEntity compares names).
Names == <<"x", "y", "z">>

----------------------------------------------------------------------------
(* Text *)

Digits == <<"0", "1", "2", "3", "4", "5", "6", "7", "8", "9">>

RECURSIVE NatToString(_)
NatToString(n) ==
    IF n < 10 THEN <<Digits[n + 1]>>
    ELSE NatToString(n \div 10) \o <<Digits[(n % 10) + 1]>>

\* Display of an i32, and of an f64 holding an integer ("3", "-1", "0").
IntToString(n) == IF n < 0 THEN <<"-">> \o NatToString(0 - n) ELSE NatToString(n)

starts_with_0(s) == Len(s) > 0 /\ s[1] = "0"

truncate(s, n) == SubSeq(s, 1, n)

VariableEntity_to_string(var) ==
    IF var.power # 1 THEN <<var.name, "^">> \o IntToString(var.power)
    ELSE <<var.name>>

----------------------------------------------------------------------------
(* VariableEntity comparison *)

VariableEntity_eq(a, b) == a.name = b.name /\ a.power = b.power
VariableEntity_ne(a, b) == a.name # b.name /\ a.power # b.power

\* Vec<VariableEntity> == Vec<VariableEntity>: equal lengths and no position
\* found unequal.  The standard library's slice comparison tests each position
\* with `!=` or with `==` depending on its version; VariableEntity defines both,
\* inconsistently, so the outcome is the build's.
Vec_eq(u, v) ==
    /\ Len(u) = Len(v)
    /\ \A i \in DOMAIN u :
         IF sliceNe THEN ~VariableEntity_ne(u[i], v[i])
         ELSE VariableEntity_eq(u[i], v[i])

----------------------------------------------------------------------------
(* ConstantTerm *)

ConstantTerm_can_add_if_collapsed(a, b) == Vec_eq(a.vars, b.vars)

\* add with the second value left out of the sum.
ConstantTerm_add_first_only(a, b) == ConstantTerm(a.value, a.vars)

ConstantTerm_add(a, b) == ConstantTerm(a.value + b.value, a.vars)

ConstantTerm_multiply(a, b) ==
    IF Len(a.vars) > Len(b.vars) THEN Panic("index")
    ELSE ConstantTerm(a.value * b.value,
             [i \in DOMAIN a.vars |-> VE(a.vars[i].name, a.vars[i].power + b.vars[i].power)])

RECURSIVE VarsText(_, _)
VarsText(list, i) ==
    IF i > Len(list) THEN <<>>
    ELSE VariableEntity_to_string(list[i]) \o <<"*">> \o VarsText(list, i + 1)

ConstantTerm_to_str(c) ==
    IF c.value = 0 THEN <<"0">>
    ELSE LET str == IntToString(c.value) \o <<"*">> \o VarsText(c.vars, 1)
         IN truncate(str, Len(str) - 1)

ConstantTerm_differentiate(c) == ConstantTerm(0, <<>>)

RECURSIVE SumPowers(_, _, _)
SumPowers(list, n, i) ==
    IF i > Len(list) THEN 0
    ELSE (IF list[i].name = n THEN list[i].power ELSE 0) + SumPowers(list, n, i + 1)

ConstantTerm_collapse(c) ==
    LET list == c.vars
        present == {list[i].name : i \in DOMAIN list}
        sorted == SelectSeq(Names, LAMBDA n : n \in present)
        new_list == [i \in DOMAIN sorted |-> VE(sorted[i], SumPowers(list, sorted[i], 1))]
    IN [c EXCEPT !.vars = new_list]

----------------------------------------------------------------------------
(* Evaluation order *)

\* The element of a one-element set.  { body : v \in {e} } evaluates e once and
\* binds v to its value, as a Rust `let v = e;` does; The(...) takes the result.
The(S) == CHOOSE y \in S : TRUE

\* Lists are returned inside a record so that a panic can be returned instead.
List(items) == [k |-> "LIST", items |-> items]

----------------------------------------------------------------------------
(* VariableTerm: merging and multiplying *)

RECURSIVE VariableTerm_can_add_if_collapsed(_, _), equal_coeffs_from(_, _, _)

\* The for loop of equal_coeffs from position i (1-based): "true", "false", or
\* "panic" when other.coeffs[i] is read past the end of other's list.
equal_coeffs_from(self, other, i) ==
    IF i > Len(self.coeffs) THEN "true"
    ELSE IF get_kind(self.coeffs[i]) = "Constant" THEN equal_coeffs_from(self, other, i + 1)
    ELSE IF i > Len(other.coeffs) THEN "panic"
    ELSE IF get_kind(self.coeffs[i]) = get_kind(other.coeffs[i])
         THEN The({IF equal = "true" THEN equal_coeffs_from(self, other, i + 1) ELSE equal :
                   equal \in {IF get_kind(self.coeffs[i]) = "Variable"
                              THEN VariableTerm_can_add_if_collapsed(self.coeffs[i],
                                                                     other.coeffs[i])
                              ELSE "true"}})
    ELSE equal_coeffs_from(self, other, i + 1)

equal_coeffs(self, other) == equal_coeffs_from(self, other, 1)

VariableTerm_can_add_if_collapsed(self, other) ==
    IF VariableEntity_eq(VE(self.name, self.power), VE(other.name, other.power))
    THEN equal_coeffs(self, other)
    ELSE "false"

VariableTerm_add(self, other) ==
    IF Len(self.coeffs) = 0 \/ Len(other.coeffs) = 0 THEN Panic("unwrap")
    ELSE LET constant1 == self.coeffs[Len(self.coeffs)]
             constant2 == other.coeffs[Len(other.coeffs)]
         IN IF constant1.k # "C" \/ constant2.k # "C" THEN Panic("unwrap")
            ELSE VariableTerm(self.name, self.power,
                     Append(SubSeq(self.coeffs, 1, Len(self.coeffs) - 1),
                            ConstantTerm_add(constant1, constant2)))

\* The for loop of multiply over other's coefficients from position i.
RECURSIVE multiply_from(_, _, _, _, _)
multiply_from(coeffs, i, constant_product, coeff_product, power) ==
    IF i > Len(coeffs)
    THEN [constant_product |-> constant_product, coeff_product |-> coeff_product, power |-> power]
    ELSE LET coeff == coeffs[i] IN
         CASE get_kind(coeff) = "Constant" ->
                  The({multiply_from(coeffs, i + 1, p, coeff_product, power) :
                       p \in {ConstantTerm_multiply(constant_product, coeff)}})
           [] get_kind(coeff) = "Variable" ->
                  multiply_from(coeffs, i + 1, constant_product, coeff_product,
                                power + coeff.power)
           [] OTHER ->
                  multiply_from(coeffs, i + 1, constant_product,
                                Append(coeff_product, coeff), power)

VariableTerm_multiply(self, other) ==
    LET r == multiply_from(other.coeffs, 1, create_number(1), <<>>, 0)
    IN VariableTerm(self.name, r.power + self.power + other.power,
                    Append(r.coeff_product, r.constant_product))

----------------------------------------------------------------------------
(* Entity: to_str, differentiate, collapse, by node kind *)

RECURSIVE to_str(_), differentiate(_), collapse(_)
RECURSIVE VariableTerm_to_str_from(_, _, _, _), VariableTerm_collapse_from(_, _, _, _, _)
RECURSIVE SummationFunction_to_str_from(_, _, _, _), collapse_terms(_, _), differentiate_terms(_, _)
RECURSIVE scan(_, _, _), SummationFunction_while(_)
RECURSIVE MultiplicationFunction_differentiate_at(_, _)

\* The for loop of VariableTerm::to_str from coefficient i, then the tail.
VariableTerm_to_str_from(self, i, str, added) ==
    IF i > Len(self.coeffs)
    THEN truncate(str, Len(str) - (IF added THEN 1 ELSE 0))
             \o VariableEntity_to_string(VE(self.name, self.power))
    ELSE The({IF s = <<"1">> THEN VariableTerm_to_str_from(self, i + 1, str, added)
              ELSE IF starts_with_0(s) THEN <<"0">>
              ELSE VariableTerm_to_str_from(self, i + 1, str \o s \o <<"*">>, TRUE) :
              s \in {to_str(self.coeffs[i])}})

VariableTerm_to_str(self) == VariableTerm_to_str_from(self, 1, <<>>, FALSE)

\* The power rule with the exponent left as it was.
VariableTerm_differentiate_same_power(self) ==
    VariableTerm(self.name, self.power,
                 <<ConstantTerm(self.power, <<>>)>> \o self.coeffs)

VariableTerm_differentiate(self) ==
    VariableTerm(self.name, self.power - 1,
                 <<ConstantTerm(self.power, <<>>)>> \o self.coeffs)

\* The loop body with a Variable-kind coefficient dropped, its exponent not added.
VariableTerm_collapse_step_no_fold(self, i, power, constant_value, new_list, coeff) ==
    IF IsPanic(coeff) THEN coeff
    ELSE IF get_kind(coeff) = "Variable"
    THEN IF coeff.name = self.name
         THEN VariableTerm_collapse_from(self, i + 1, power, constant_value, new_list)
         ELSE Panic("vars")
    ELSE IF get_kind(coeff) = "Constant"
    THEN IF constant_value.k = "NONE"
         THEN VariableTerm_collapse_from(self, i + 1, power, coeff, new_list)
         ELSE LET product == ConstantTerm_multiply(constant_value, coeff) IN
              IF IsPanic(product) THEN product
              ELSE VariableTerm_collapse_from(self, i + 1, power, product, new_list)
    ELSE VariableTerm_collapse_from(self, i + 1, power, constant_value,
                                    Append(new_list, coeff))

\* The loop body with a Variable-kind coefficient folded whatever its name.
VariableTerm_collapse_step_any_name(self, i, power, constant_value, new_list, coeff) ==
    IF IsPanic(coeff) THEN coeff
    ELSE IF get_kind(coeff) = "Variable"
    THEN VariableTerm_collapse_from(self, i + 1, power + coeff.power,
                                    constant_value, new_list)
    ELSE IF get_kind(coeff) = "Constant"
    THEN IF constant_value.k = "NONE"
         THEN VariableTerm_collapse_from(self, i + 1, power, coeff, new_list)
         ELSE LET product == ConstantTerm_multiply(constant_value, coeff) IN
              IF IsPanic(product) THEN product
              ELSE VariableTerm_collapse_from(self, i + 1, power, product, new_list)
    ELSE VariableTerm_collapse_from(self, i + 1, power, constant_value,
                                    Append(new_list, coeff))

\* The body of the for loop of VariableTerm::collapse for coefficient i, once
\* coeff.collapse() has run, and the rest of the loop.
VariableTerm_collapse_step(self, i, power, constant_value, new_list, coeff) ==
    IF IsPanic(coeff) THEN coeff
    ELSE IF get_kind(coeff) = "Variable"
    THEN IF coeff.name = self.name
         THEN VariableTerm_collapse_from(self, i + 1, power + coeff.power,
                                         constant_value, new_list)
         ELSE Panic("vars")
    ELSE IF get_kind(coeff) = "Constant"
    THEN IF constant_value.k = "NONE"
         THEN VariableTerm_collapse_from(self, i + 1, power, coeff, new_list)
         ELSE LET product == ConstantTerm_multiply(constant_value, coeff) IN
              IF IsPanic(product) THEN product
              ELSE VariableTerm_collapse_from(self, i + 1, power, product, new_list)
    ELSE VariableTerm_collapse_from(self, i + 1, power, constant_value,
                                    Append(new_list, coeff))

\* The for loop of VariableTerm::collapse from coefficient i, then the tail.
VariableTerm_collapse_from(self, i, power, constant_value, new_list) ==
    IF i > Len(self.coeffs)
    THEN VariableTerm(self.name, power,
             Append(new_list, IF constant_value.k = "NONE" THEN create_number(1)
                              ELSE ConstantTerm_collapse(constant_value)))
    ELSE The({VariableTerm_collapse_step(self, i, power, constant_value, new_list, coeff) :
              coeff \in {collapse(self.coeffs[i])}})

VariableTerm_collapse(self) == VariableTerm_collapse_from(self, 1, self.power, None, <<>>)

----------------------------------------------------------------------------
(* SummationFunction *)

SummationFunction_to_str_from(self, i, str, added) ==
    IF i > Len(self.terms)
    THEN truncate(str, Len(str) - (IF added THEN 3 ELSE 0))
    ELSE The({IF starts_with_0(s) THEN SummationFunction_to_str_from(self, i + 1, str, added)
              ELSE SummationFunction_to_str_from(self, i + 1, str \o s \o <<" ", "+", " ">>,
                                                 TRUE) :
              s \in {to_str(self.terms[i])}})

SummationFunction_to_str(self) == SummationFunction_to_str_from(self, 1, <<>>, FALSE)

\* A list built from its first element and the rest, either of which may be a panic.
cons(t, rest) ==
    IF IsPanic(t) THEN t
    ELSE IF IsPanic(rest) THEN rest
    ELSE List(<<t>> \o rest.items)

\* for term in terms: term.collapse(), in order; the first panic ends it.
collapse_terms(terms, i) ==
    IF i > Len(terms) THEN List(<<>>)
    ELSE The({cons(t, rest) : t \in {collapse(terms[i])},
                              rest \in {collapse_terms(terms, i + 1)}})

\* for term in terms: sum.push(term.differentiate()), in order.
differentiate_terms(terms, i) ==
    IF i > Len(terms) THEN List(<<>>)
    ELSE The({cons(t, rest) : t \in {differentiate(terms[i])},
                              rest \in {differentiate_terms(terms, i + 1)}})

\* Vec::swap_remove(index), index 0-based and in range: the last element takes
\* the removed element's place.
swap_remove(list, index) ==
    [p \in 1..(Len(list) - 1) |-> IF p = index + 1 THEN list[Len(list)] ELSE list[p]]

\* The inner for loop for a given i (1-based): the first j # i whose kind is
\* that of terms[i] is the only one compared, because of the break; 0 if none.
first_partner(terms, i) ==
    LET same == {j \in DOMAIN terms : j # i /\ get_kind(terms[j]) = get_kind(terms[i])}
    IN IF same = {} THEN 0 ELSE CHOOSE j \in same : \A q \in same : j <= q

\* The match that assigns sum: the merged term, None, or a panic.
pair_sum(first, second) ==
    CASE get_kind(first) = "Constant" ->
             IF ConstantTerm_can_add_if_collapsed(first, second)
             THEN ConstantTerm_add(first, second) ELSE None
      [] get_kind(first) = "Variable" ->
             The({IF can = "panic" THEN Panic("index")
                  ELSE IF can = "true" THEN VariableTerm_add(first, second) ELSE None :
                  can \in {VariableTerm_can_add_if_collapsed(first, second)}})
      [] OTHER -> None

\* The assignments the inner loop makes once sum is computed for (i, j), 1-based.
scan_step(st, i, j, sum) ==
    IF IsPanic(sum) THEN [st EXCEPT !.panic = sum.why]
    ELSE IF sum.k # "NONE"
    THEN [st EXCEPT !.sum = sum, !.change_i = i - 1, !.change_j = j - 1, !.did_change = TRUE]
    ELSE [st EXCEPT !.sum = sum]

\* The outer for loop from i (1-based).  st holds the loop's locals: sum,
\* change_i and change_j (0-based, as in the code), did_change, and panic.
scan(terms, i, st) ==
    IF i > Len(terms) \/ st.panic # "none" THEN st
    ELSE The({IF j = 0 THEN scan(terms, i + 1, st)
              ELSE The({scan(terms, i + 1, st2) :
                        st2 \in {scan_step(st, i, j, pair_sum(terms[i], terms[j]))}}) :
              j \in {first_partner(terms, i)}})

\* What follows the scan in one iteration of `while did_change`: the two
\* removals and the insertion at the front.  terms is the list the iteration
\* leaves (at the panic, if it panics), flagged is did_change at the end of
\* the scan (a scan that panics has no end).
pass_end(terms, st) ==
    IF st.panic # "none"
    THEN [terms |-> terms, flagged |-> FALSE, panic |-> st.panic]
    ELSE IF ~st.did_change
    THEN [terms |-> terms, flagged |-> FALSE, panic |-> "none"]
    ELSE LET t1 == swap_remove(terms, st.change_i) IN
         IF st.change_j >= Len(t1)
         THEN [terms |-> t1, flagged |-> TRUE, panic |-> "index"]
         ELSE LET t2 == swap_remove(t1, st.change_j) IN
              IF st.sum.k = "NONE"
              THEN [terms |-> t2, flagged |-> TRUE, panic |-> "unwrap"]
              ELSE [terms |-> <<st.sum>> \o t2, flagged |-> TRUE, panic |-> "none"]

\* One iteration of `while did_change`.
pass(terms) ==
    The({pass_end(terms, st) :
         st \in {scan(terms, 1, [sum |-> None, change_i |-> 0, change_j |-> 0,
                                 did_change |-> FALSE, panic |-> "none"])}})

\* while did_change { ... }
SummationFunction_while(terms) ==
    The({IF p.panic # "none" THEN Panic(p.panic)
         ELSE IF p.flagged THEN SummationFunction_while(p.terms)
         ELSE List(p.terms) :
         p \in {pass(terms)}})

SummationFunction_collapse(self) ==
    The({IF IsPanic(ts) THEN ts
         ELSE The({IF IsPanic(done) THEN done ELSE SummationFunction(done.items) :
                   done \in {SummationFunction_while(ts.items)}}) :
         ts \in {collapse_terms(self.terms, 1)}})

SummationFunction_differentiate(self) ==
    The({IF IsPanic(scloned) THEN scloned
         ELSE The({IF IsPanic(sum) THEN sum
                   ELSE SummationFunction_collapse(SummationFunction(sum.items)) :
                   sum \in {differentiate_terms(scloned.terms, 1)}}) :
         scloned \in {SummationFunction_collapse(self)}})

----------------------------------------------------------------------------
(* MultiplicationFunction *)

MultiplicationFunction_to_str(self) ==
    The({IF s1 = <<"1">> THEN s2
         ELSE IF s2 = <<"1">> THEN s1
         ELSE s1 \o <<"*">> \o s2 :
         s1 \in {to_str(self.first)}, s2 \in {to_str(self.second)}})

\* The product stored in first when both operands have the same kind.
MultiplicationFunction_product(first, second) ==
    CASE get_kind(first) = "Constant" -> ConstantTerm_multiply(first, second)
      [] get_kind(first) = "Variable" -> VariableTerm_multiply(first, second)
      [] OTHER -> MultiplicationFunction(first, second)

\* The zero test that ends collapse (the diagnostic print before it changes no tree).
MultiplicationFunction_absorb(self) ==
    IF to_str(self.first) = <<"0">> \/ to_str(self.second) = <<"0">>
    THEN MultiplicationFunction(create_number(0), create_number(0))
    ELSE self

\* collapse once both operands have been collapsed into first and second.
MultiplicationFunction_fold(first, second) ==
    IF IsPanic(first) THEN first
    ELSE IF IsPanic(second) THEN second
    ELSE IF get_kind(first) = get_kind(second)
    THEN LET product == MultiplicationFunction_product(first, second) IN
         IF IsPanic(product) THEN product
         ELSE MultiplicationFunction_absorb(MultiplicationFunction(product, create_number(1)))
    ELSE MultiplicationFunction_absorb(MultiplicationFunction(first, second))

MultiplicationFunction_collapse(self) ==
    The({MultiplicationFunction_fold(first, second) :
         first \in {collapse(self.first)}, second \in {collapse(self.second)}})

\* The product rule once scloned is collapsed and both operands differentiated.
product_rule(scloned, dfirst, dsecond) ==
    IF IsPanic(dfirst) THEN dfirst
    ELSE IF IsPanic(dsecond) THEN dsecond
    ELSE LET nfirst == MultiplicationFunction(scloned.first, dsecond)
             nsecond == MultiplicationFunction(scloned.second, dfirst)
         IN SummationFunction_collapse(SummationFunction(<<nfirst, nsecond>>))

\* differentiate at recursion depth d of the chain of calls on scloned.first.
\* When both operands are Function-kind, collapse stores a product of two
\* Function-kind operands in first again, so first.differentiate() recurses
\* without end unless a collapse panics: the stack overflows and the process
\* aborts.  The model reports the overflow beyond MaxRecursion nested calls.
MultiplicationFunction_differentiate_at(self, d) ==
    IF d > MaxRecursion THEN Panic("stack")
    ELSE The({IF IsPanic(scloned) THEN scloned
              ELSE The({product_rule(scloned, dfirst, dsecond) :
                        dfirst \in {IF scloned.first.k = "M"
                                    THEN MultiplicationFunction_differentiate_at(scloned.first,
                                                                                 d + 1)
                                    ELSE differentiate(scloned.first)},
                        dsecond \in {differentiate(scloned.second)}}) :
              scloned \in {MultiplicationFunction_collapse(self)}})

MultiplicationFunction_differentiate(self) == MultiplicationFunction_differentiate_at(self, 0)

----------------------------------------------------------------------------
(* Dynamic dispatch on the Entity trait *)

to_str(e) ==
    CASE e.k = "C" -> ConstantTerm_to_str(e)
      [] e.k = "V" -> VariableTerm_to_str(e)
      [] e.k = "S" -> SummationFunction_to_str(e)
      [] e.k = "M" -> MultiplicationFunction_to_str(e)

differentiate(e) ==
    CASE e.k = "C" -> ConstantTerm_differentiate(e)
      [] e.k = "V" -> VariableTerm_differentiate(e)
      [] e.k = "S" -> SummationFunction_differentiate(e)
      [] e.k = "M" -> MultiplicationFunction_differentiate(e)

collapse(e) ==
    CASE e.k = "C" -> ConstantTerm_collapse(e)
      [] e.k = "V" -> VariableTerm_collapse(e)
      [] e.k = "S" -> SummationFunction_collapse(e)
      [] e.k = "M" -> MultiplicationFunction_collapse(e)

----------------------------------------------------------------------------
(* The trees a caller builds, within the bounds *)

Exps == (0 - MaxNeg)..MaxPower

BareVariables == {create_variable("x", p) : p \in Exps}

VarLists ==
    {<<>>, <<VE("y", 1)>>, <<VE("y", 2)>>, <<VE("z", 2)>>,
     <<VE("z", 1), VE("y", 1)>>, <<VE("y", 1), VE("y", 1)>>}

Constants == {ConstantTerm(v, l) : v \in 0..MaxValue, l \in VarLists}

ConstantPairs == {SummationFunction(<<a, b>>) : a \in Constants, b \in Constants}

TermAtoms ==
    {create_number(1), ConstantTerm(2, <<VE("y", 1)>>),
     create_variable("x", 2), create_variable("x", 3),
     VariableTerm("x", 2, <<create_number(3)>>),
     VariableTerm("x", 2, <<SummationFunction(<<create_variable("x", 1)>>),
                            SummationFunction(<<create_variable("x", 1)>>)>>),
     MultiplicationFunction(create_number(2), create_variable("x", 1))}

SumLists == {SummationFunction(ts) : ts \in UNION {[1..n -> TermAtoms] : n \in 0..MaxTerms}}

OperandAtoms ==
    {create_number(0), create_number(2), ConstantTerm(2, <<VE("y", 1)>>),
     create_variable("x", 2), create_variable("x", 3),
     VariableTerm("x", 0 - 1, <<create_number(0)>>),
     VariableTerm("x", 2, <<create_number(3)>>),
     SummationFunction(<<create_variable("x", 1)>>),
     SummationFunction(<<create_number(0), create_number(0)>>),
     MultiplicationFunction(create_number(0), create_variable("x", 1)),
     MultiplicationFunction(create_variable("x", 1), create_number(2))}

Products == {MultiplicationFunction(f, s) : f \in OperandAtoms, s \in OperandAtoms}

CoeffAtoms ==
    {create_number(2), ConstantTerm(3, <<VE("y", 1)>>),
     create_variable("x", 2), create_variable("y", 1),
     VariableTerm("x", 1, <<create_variable("x", 2)>>),
     VariableTerm("x", 1, <<create_variable("y", 1)>>),
     SummationFunction(<<create_variable("x", 1), create_variable("x", 1)>>),
     MultiplicationFunction(create_number(2), create_variable("x", 1))}

VariableTerms ==
    {VariableTerm("x", p, cs) : p \in 1..2,
                                cs \in UNION {[1..n -> CoeffAtoms] : n \in 0..MaxCoeffs}}

Universe ==
    BareVariables \cup Constants \cup ConstantPairs \cup SumLists \cup Products
        \cup VariableTerms

----------------------------------------------------------------------------
(* The caller: builds one tree, then calls collapse, differentiate, to_str *)

NoOut == [of |-> "none", text |-> NoText]

Init ==
    /\ sliceNe \in BOOLEAN
    /\ orig \in Universe
    /\ obj = orig
    /\ res = None
    /\ out = NoOut
    /\ pc = "ready"
    /\ fatal = "none"
    /\ ncollapse = 0
    /\ first1 = None
    /\ passes = 0
    /\ lenBefore = 0
    /\ passFlagged = FALSE

\* A panic unwinds through main: the process ends, nothing is returned.
Abort(why) ==
    /\ pc' = "aborted"
    /\ fatal' = why

Returned(tree) ==
    /\ obj' = tree
    /\ pc' = "ready"
    /\ ncollapse' = ncollapse + 1
    /\ first1' = IF ncollapse = 0 THEN tree ELSE first1
    /\ UNCHANGED fatal

\* obj.collapse() on a term or a product.
Collapse ==
    /\ pc = "ready"
    /\ ncollapse < MaxCollapses
    /\ obj.k # "S"
    /\ \E r \in {collapse(obj)} :
         IF IsPanic(r)
         THEN Abort(r.why) /\ UNCHANGED <<obj, ncollapse, first1>>
         ELSE Returned(r)
    /\ UNCHANGED <<sliceNe, orig, res, out, passes, lenBefore, passFlagged>>

\* obj.collapse() on a sum, up to the while loop: every term collapsed.
CollapseTerms ==
    /\ pc = "ready"
    /\ ncollapse < MaxCollapses
    /\ obj.k = "S"
    /\ \E ts \in {collapse_terms(obj.terms, 1)} :
         IF IsPanic(ts)
         THEN Abort(ts.why) /\ UNCHANGED obj
         ELSE /\ obj' = SummationFunction(ts.items)
              /\ pc' = "loop"
              /\ UNCHANGED fatal
    /\ passes' = 0
    /\ passFlagged' = FALSE
    /\ UNCHANGED <<sliceNe, orig, res, out, ncollapse, first1, lenBefore>>

\* One iteration of the while loop of obj.collapse() on a sum.
CollapsePass ==
    /\ pc = "loop"
    /\ \E p \in {pass(obj.terms)} :
       /\ passes' = passes + 1
       /\ lenBefore' = Len(obj.terms)
       /\ passFlagged' = p.flagged
       /\ IF p.panic # "none"
          THEN /\ Abort(p.panic)
               /\ obj' = SummationFunction(p.terms)
               /\ UNCHANGED <<ncollapse, first1>>
          ELSE IF p.flagged
          THEN /\ obj' = SummationFunction(p.terms)
               /\ UNCHANGED <<pc, fatal, ncollapse, first1>>
          ELSE Returned(SummationFunction(p.terms))
    /\ UNCHANGED <<sliceNe, orig, res, out>>

\* res = obj.differentiate(); the receiver is borrowed immutably.
Differentiate ==
    /\ pc = "ready"
    /\ res = None
    /\ \E r \in {differentiate(obj)} :
         IF IsPanic(r)
         THEN Abort(r.why) /\ UNCHANGED res
         ELSE res' = r /\ UNCHANGED <<pc, fatal>>
    /\ UNCHANGED <<sliceNe, orig, obj, out, ncollapse, first1, passes, lenBefore, passFlagged>>

\* obj.to_str()
ToStrObj ==
    /\ pc = "ready"
    /\ out' = [of |-> "obj", text |-> to_str(obj)]
    /\ UNCHANGED <<sliceNe, orig, obj, res, pc, fatal, ncollapse, first1, passes, lenBefore,
                   passFlagged>>

\* res.to_str(), as main prints the derivative
ToStrRes ==
    /\ pc = "ready"
    /\ res # None
    /\ out' = [of |-> "res", text |-> to_str(res)]
    /\ UNCHANGED <<sliceNe, orig, obj, res, pc, fatal, ncollapse, first1, passes, lenBefore,
                   passFlagged>>

Next ==
    \/ Collapse
    \/ CollapseTerms
    \/ CollapsePass
    \/ Differentiate
    \/ ToStrObj
    \/ ToStrRes

Spec == Init /\ [][Next]_vars

----------------------------------------------------------------------------
(* Vocabulary of the properties *)

\* The first collapse of the caller's tree has returned and nothing else ran since.
Simplified == pc = "ready" /\ ncollapse = 1

KindsOf(list) == {get_kind(list[i]) : i \in DOMAIN list}

\* a and b are like terms: same kind, and the kind's can_add_if_collapsed holds.
LikeTerms(a, b) ==
    /\ get_kind(a) = get_kind(b)
    /\ CASE get_kind(a) = "Constant" -> ConstantTerm_can_add_if_collapsed(a, b)
         [] get_kind(a) = "Variable" -> VariableTerm_can_add_if_collapsed(a, b) = "true"
         [] OTHER -> FALSE

\* The tree is a sum of Constant-kind and Variable-kind terms.
SumOfTerms(e) == e.k = "S" /\ KindsOf(e.terms) \subseteq {"Constant", "Variable"}

\* C1: after SummationFunction's collapse returns on a list of Constant-kind and
\* Variable-kind terms, no two distinct entries of the term list are like terms.
C1_NoLikeTermsLeft ==
    (SumOfTerms(orig) /\ pc = "ready" /\ ncollapse >= 1) =>
        \A i, j \in DOMAIN obj.terms : i # j => ~LikeTerms(obj.terms[i], obj.terms[j])

\* C2: collapse is idempotent: a second collapse leaves the tree as the first
\* collapse left it, whatever the node kinds.
C2_Idempotent == (pc = "ready" /\ ncollapse = 2) => obj = first1

\* C3: every pass of the while loop that ends with did_change set leaves the
\* term list one entry shorter, and the loop goes on exactly while passes flag.
C3_PassShortensByOne ==
    /\ (passes > 0 /\ passFlagged) =>
           (fatal = "none" /\ Len(obj.terms) = lenBefore - 1)
    /\ (passes > 0 /\ pc = "loop") => passFlagged
    /\ (passes > 0 /\ pc = "ready") => ~passFlagged

\* The sum of the exponents that list l gives to name n.
RECURSIVE ExponentOf(_, _)
ExponentOf(l, n) ==
    IF l = <<>> THEN 0
    ELSE (IF Head(l).name = n THEN Head(l).power ELSE 0) + ExponentOf(Tail(l), n)

NamePosition(n) == CHOOSE r \in DOMAIN Names : Names[r] = n

\* vs is list l simplified: one entry per name of l, in name order, carrying
\* the sum of the exponents l gives that name.
SimplifiedVars(vs, l) ==
    /\ {vs[i].name : i \in DOMAIN vs} = {l[i].name : i \in DOMAIN l}
    /\ \A i, j \in DOMAIN vs : i < j => NamePosition(vs[i].name) < NamePosition(vs[j].name)
    /\ \A i \in DOMAIN vs : vs[i].power = ExponentOf(l, vs[i].name)

\* The caller built the sum of two constants with equal incidental-variable lists.
EqualConstantPair ==
    /\ orig.k = "S" /\ Len(orig.terms) = 2
    /\ orig.terms[1].k = "C" /\ orig.terms[2].k = "C"
    /\ orig.terms[1].vars = orig.terms[2].vars

RECURSIVE IsZero(_)
IsZero(e) ==
    CASE e.k = "C" -> e.value = 0
      [] e.k = "V" -> \E i \in DOMAIN e.coeffs : e.coeffs[i].k = "C" /\ e.coeffs[i].value = 0
      [] e.k = "M" -> IsZero(e.first) \/ IsZero(e.second)
      [] e.k = "S" -> e.terms # <<>> /\ \A i \in DOMAIN e.terms : IsZero(e.terms[i])

\* The operand simplifies, and to zero.
SimplifiesToZero(e) == \E c \in {collapse(e)} : ~IsPanic(c) /\ IsZero(c)

\* C5: after the collapse of a product with an operand that simplifies to zero,
\* first and second both render as "0".
C5_ZeroAbsorption ==
    (orig.k = "M" /\ Simplified
        /\ (SimplifiesToZero(orig.first) \/ SimplifiesToZero(orig.second))) =>
        (to_str(obj.first) = <<"0">> /\ to_str(obj.second) = <<"0">>)

\* The text of coefficient c times x to the power p, in the format of
\* VariableTerm::to_str.
TermText(c, p) == IntToString(c) \o VariableEntity_to_string(VE("x", p))

\* C6: the derivative of the bare variable x^n renders as the term with
\* coefficient n and exponent n-1; as "1" for n = 1 and as "0" for n = 0.
C6_PowerRule ==
    (orig \in BareVariables /\ out.of = "res") =>
        out.text = (CASE orig.power = 0 -> <<"0">>
                      [] orig.power = 1 -> <<"1">>
                      [] OTHER -> TermText(orig.power, orig.power - 1))

\* C7: the derivative of x^3 * x^2 is the single variable term 5 x^4, which is
\* what differentiate gives for x^5.
C7_ProductRule ==
    (orig = MultiplicationFunction(create_variable("x", 3), create_variable("x", 2))
        /\ ncollapse = 0 /\ res # None) =>
        /\ res = VariableTerm("x", 4, <<create_number(5)>>)
        /\ res = differentiate(create_variable("x", 5))

\* The caller differentiated the sum x^3 + x^2 as built.
SumRuleCase ==
    /\ orig = SummationFunction(<<create_variable("x", 3), create_variable("x", 2)>>)
    /\ ncollapse = 0
    /\ pc = "ready"

\* C8: the derivative of x^3 + x^2 is a sum of exactly two variable terms,
\* 3 x^2 and 2 x^1, and the receiver is as it was built; differentiate does
\* not abort on it.
C8_SumRule ==
    SumRuleCase =>
        /\ obj = orig
        /\ fatal = "none"
        /\ res # None =>
            /\ res.k = "S" /\ Len(res.terms) = 2
            /\ \E i, j \in 1..2 :
                 /\ i # j
                 /\ res.terms[i] = VariableTerm("x", 2, <<create_number(3)>>)
                 /\ res.terms[j] = VariableTerm("x", 1, <<create_number(2)>>)

\* C8 witness: the derivative of x^3 + x^2 has been returned.
C8_Differentiated == SumRuleCase /\ res # None

IsFunction(e) == get_kind(e) = "Function"

\* The product of the values of the Constant-kind entries of list l (1 if none).
RECURSIVE ConstantProduct(_)
ConstantProduct(l) ==
    IF l = <<>> THEN 1
    ELSE (IF get_kind(Head(l)) = "Constant" THEN Head(l).value ELSE 1)
             * ConstantProduct(Tail(l))

\* The exponent a Variable-kind coefficient brings when it is folded: its own
\* and those of the Variable-kind coefficients folded into it, at every depth.
RECURSIVE FoldedExponent(_), FoldedExponents(_)
FoldedExponents(l) ==
    IF l = <<>> THEN 0
    ELSE (IF get_kind(Head(l)) = "Variable" THEN FoldedExponent(Head(l)) ELSE 0)
             + FoldedExponents(Tail(l))
FoldedExponent(v) == v.power + FoldedExponents(v.coeffs)

\* C9: after VariableTerm's collapse returns, the coefficient list holds no
\* Variable-kind entry and one Constant-kind entry, the last, whose value is
\* the product of the values of the Constant-kind coefficients there were (1 if
\* none); before it come the Function-kind coefficients, each simplified, in
\* their original order; and the active exponent is the old one plus the
\* exponents of all the Variable-kind coefficients folded, nested ones included.
C9_CoefficientsFolded ==
    (orig.k = "V" /\ Simplified) =>
        LET n == Len(obj.coeffs)
            functions == SelectSeq(orig.coeffs, IsFunction)
        IN /\ n >= 1
           /\ \A i \in 1..n : get_kind(obj.coeffs[i]) # "Variable"
           /\ \A i \in 1..n : get_kind(obj.coeffs[i]) = "Constant" <=> i = n
           /\ obj.coeffs[n].value = ConstantProduct(orig.coeffs)
           /\ n - 1 = Len(functions)
           /\ \A i \in 1..(n - 1) : obj.coeffs[i] = collapse(functions[i])
           /\ obj.name = orig.name
           /\ obj.power = orig.power + FoldedExponents(orig.coeffs)

\* C9 witness: a term whose coefficients were a variable term holding a nested
\* variable coefficient, and a constant, has been collapsed.
C9_Folded ==
    /\ orig.k = "V" /\ Simplified
    /\ orig.coeffs = <<VariableTerm("x", 1, <<create_variable("x", 2)>>), create_number(2)>>

\* Some Variable-kind coefficient of term v has a name other than v's.
DirectMismatch(v) ==
    \E i \in DOMAIN v.coeffs : v.coeffs[i].k = "V" /\ v.coeffs[i].name # v.name

\* Some variable term of the tree has a Variable-kind coefficient of another name.
RECURSIVE DeepMismatch(_)
DeepMismatch(e) ==
    CASE e.k = "C" -> FALSE
      [] e.k = "V" -> DirectMismatch(e) \/ \E i \in DOMAIN e.coeffs : DeepMismatch(e.coeffs[i])
      [] e.k = "S" -> \E i \in DOMAIN e.terms : DeepMismatch(e.terms[i])
      [] e.k = "M" -> DeepMismatch(e.first) \/ DeepMismatch(e.second)

\* C10 as stated: the collapse of a variable term never returns when some
\* Variable-kind coefficient has another name than the active variable, and it
\* never ends in the several-variables panic when every Variable-kind
\* coefficient has the active variable's name; an abort is final.
C10_FatalIffDirectMismatch ==
    orig.k = "V" =>
        /\ DirectMismatch(orig) => ncollapse = 0
        /\ ~DirectMismatch(orig) => fatal # "vars"
        /\ pc = "aborted" => ~ENABLED Next

\* C10 amended: the collapse of a variable term never returns when some
\* Variable-kind coefficient has another name than the active variable; it ends
\* in the several-variables panic only if, at some depth of the tree, a variable
\* term has a Variable-kind coefficient of another name than its own; an abort
\* is final: the tree is not handed back simplified and no operation runs after it.
C10_FatalOnMismatch ==
    orig.k = "V" =>
        /\ DirectMismatch(orig) => ncollapse = 0
        /\ fatal = "vars" => DeepMismatch(orig)
        /\ pc = "aborted" => (fatal # "none" /\ ~ENABLED Next)
        /\ (pc = "aborted" /\ ncollapse = 0) => obj = orig

\* C10 witness: the collapse of a term with a coefficient of another name has
\* aborted with the several-variables panic.
C10_Aborted ==
    /\ orig.k = "V" /\ DirectMismatch(orig)
    /\ pc = "aborted" /\ fatal = "vars"


\* A sum of three or more terms, each a plain number or a bare Variable-kind
\* term (no coefficients) over the variable x.
PlainSum(e) ==
    /\ e.k = "S"
    /\ Len(e.terms) >= 3
    /\ \A i \in DOMAIN e.terms :
          \/ /\ e.terms[i].k = "C"
             /\ e.terms[i].vars = <<>>
          \/ /\ e.terms[i].k = "V"
             /\ e.terms[i].name = "x"
             /\ e.terms[i].coeffs = <<>>

\* The locals of the while loop at the end of the scan of the coming pass.
EndOfScan ==
    scan(obj.terms, 1, [sum |-> None, change_i |-> 0, change_j |-> 0,
                        did_change |-> FALSE, panic |-> "none"])

\* C11: collapse of a sum of three or more Constant-kind and bare Variable-kind
\* terms over one variable never aborts: whenever did_change is set at the end
\* of a scan, sum is present, change_i and change_j are valid for the two
\* successive swap_remove calls, and sum is the sum of the two terms they name.
C11_MergeStateConsistent ==
    PlainSum(orig) =>
        /\ fatal = "none"
        /\ pc = "loop" =>
              \A st \in {EndOfScan} :
                  (st.panic = "none" /\ st.did_change) =>
                      /\ st.sum # None
                      /\ st.change_i < Len(obj.terms)
                      /\ st.change_j < Len(obj.terms) - 1
                      /\ st.change_i # st.change_j
                      /\ st.sum = pair_sum(obj.terms[st.change_i + 1],
                                           obj.terms[st.change_j + 1])


\* A product of two Variable-kind operands over the same variable.
VariableProduct(e) ==
    /\ e.k = "M"
    /\ e.first.k = "V"
    /\ e.second.k = "V"
    /\ e.first.name = e.second.name

\* The value of the constant coefficient that collapse leaves last in term t.
ConstantOf(t) == t.coeffs[Len(t.coeffs)].value

\* C12: collapse of a product of two Variable-kind operands a and b over one
\* variable keeps the product's value and does not depend on operand order:
\* the folded first operand has exponent a.power + b.power and, last in its
\* coefficients, the product of the constant coefficients of a and of b; the
\* swapped product collapses to the same tree.
C12_ProductValueKept ==
    (VariableProduct(orig) /\ Simplified) =>
        \A a \in {VariableTerm_collapse(orig.first)},
           b \in {VariableTerm_collapse(orig.second)} :
            /\ obj = collapse(MultiplicationFunction(orig.second, orig.first))
            /\ ConstantOf(a) * ConstantOf(b) # 0 =>
                  /\ obj.first.k = "V"
                  /\ obj.first.power = a.power + b.power
                  /\ ConstantOf(obj.first) = ConstantOf(a) * ConstantOf(b)
                  /\ obj.second = create_number(1)

====
